---- MODULE Spec2Model ----
(***************************************************************************)
(* The Sweet Bonanza lobby service (src/services/sweetBonanzaService.js): *)
(* the round session, its self-rescheduling tick, the decision policy,    *)
(* the settlement of the round's bets against the account and ledger      *)
(* collections, and the request handlers addBet, setAdminDecision and     *)
(* getState.                                                              *)
(*                                                                         *)
(* The service runs on one JavaScript event loop.  A handler that holds   *)
(* no await is one atomic step.  The tick is atomic up to its first       *)
(* awaited account/ledger operation; every such operation is one further  *)
(* step (the operation returning, or throwing), and the handlers may run  *)
(* between two of them.                                                   *)
(***************************************************************************)
EXTENDS Integers, Sequences, FiniteSets, TLC

\* ------------------------------------------------------------------ bounds
\* roundCount is not raised above MaxRounds
MaxRounds == 1
\* in the specification of the 5-round cycle, roundCount is not raised above
\* MaxCycleRounds
MaxCycleRounds == 6
\* at most MaxBets bets are accepted over a whole run
MaxBets == 2
\* at most MaxFaults ticks fail unexpectedly over a whole run
MaxFaults == 1
\* the balance every account starts with
InitBalance == 10

\* ------------------------------------------------------------- the domain
Sides == {"win", "loss"}

\* the stakes callers place
Stakes == {1, 2}

\* the accounts of the User collection
Accounts == {"u1"}

\* a well-formed account id that no User document has
Ghost == "ghost"

\* what a caller may pass as userId
PlayerIds == Accounts \cup {Ghost, "anonymous"}

ROUND_TIMES == [BETTING |-> 10, SPINNING |-> 15, RESULT |-> 10]

\* JavaScript's null, for adminDecision and lastRoundId
Null == "null"

\* JavaScript's null, for result
NoResult == [null |-> TRUE]

\* roundCycle before the first startNewRound: the constructor sets no roundCycle
Undefined == 0

\* calculateResult's locals while no calculateResult is running
IdleFrame == [decision |-> Null, i |-> 0, winners |-> <<>>]

VARIABLES
    session,           \* this.session
    activePlayers,     \* this.activePlayers
    isRunning,         \* this.isRunning
    pc,                \* where the tick is: "timer" (setTimeout pending) or the await it is at
    frame,             \* the running calculateResult's locals
    balance,           \* User collection: balance of each account
    transactions,      \* Transaction collection, in order of creation
    balanceHistories,  \* BalanceHistory collection, in order of creation
    thrown,            \* the bets (by index) whose settlement threw, since the last tick
    faults,            \* how many ticks have failed so far
    nBets,             \* how many bets have been accepted so far
    reels,             \* generateSlotOutcome: the grid it is working on
    gen,               \* generateSlotOutcome: where it is, and its locals
    list,              \* generateWinnersList: where it is, and its locals
    plays              \* playGame: the requests in progress, and their locals

\* the state of the lobby service and of the collections
lobbyVars == <<session, activePlayers, isRunning, pc, frame, thrown, faults,
               nBets>>

\* the state of the calls that run outside the lobby's session
callVars == <<reels, gen, list, plays>>

vars == <<session, activePlayers, isRunning, pc, frame, balance, transactions,
          balanceHistories, thrown, faults, nBets, reels, gen, list, plays>>

\* ------------------------------------------------------------ constructor
SessionNew ==
    [roundId |-> 0,
     phase |-> "BETTING",
     timeLeft |-> ROUND_TIMES.BETTING,
     roundCount |-> 0,
     roundCycle |-> Undefined,
     bets |-> <<>>,
     adminDecision |-> Null,
     result |-> NoResult,
     lastRoundId |-> Null]

\* the lobby service after its module has loaded, and the collections
LobbyInit ==
    /\ session = SessionNew
    /\ activePlayers = {}
    /\ isRunning = FALSE
    /\ pc = "new"
    /\ frame = IdleFrame
    /\ balance = [u \in Accounts |-> InitBalance]
    /\ transactions = <<>>
    /\ balanceHistories = <<>>
    /\ thrown = {}
    /\ faults = 0
    /\ nBets = 0

\* no call of generateSlotOutcome, generateWinnersList or playGame is running
NoGrid == <<>>

GenIdle == [at |-> "idle"]

ListIdle == [at |-> "idle"]

NoPlays == <<>>

CallsIdle ==
    /\ reels = NoGrid
    /\ gen = GenIdle
    /\ list = ListIdle
    /\ plays = NoPlays

Init == LobbyInit /\ CallsIdle

\* ------------------------------------------------- calculateResult: policy
RECURSIVE sideTotal(_, _)
\* bets.filter(b => b.side === side).reduce((sum, b) => sum + b.betAmount, 0)
sideTotal(bets, side) ==
    IF bets = <<>> THEN 0
    ELSE (IF Head(bets).side = side THEN Head(bets).betAmount ELSE 0)
         + sideTotal(Tail(bets), side)

\* majoritySide with > for >=: equal totals make 'loss' the majority
majoritySideStrict(bets) ==
    IF sideTotal(bets, "win") > sideTotal(bets, "loss") THEN "win" ELSE "loss"

majoritySide(bets) ==
    IF sideTotal(bets, "win") >= sideTotal(bets, "loss") THEN "win" ELSE "loss"

minoritySide(bets) ==
    IF majoritySide(bets) = "win" THEN "loss" ELSE "win"

\* the decision without an override, by the position in the 5-round cycle
cycleDecision(bets, roundCycle) ==
    IF roundCycle = 1 THEN minoritySide(bets)
    ELSE IF roundCycle = 5 THEN majoritySide(bets)
    ELSE minoritySide(bets)

\* let decision = adminDecision; if (!decision) { ... }
decide(s) ==
    IF s.adminDecision # Null THEN s.adminDecision
    ELSE cycleDecision(s.bets, s.roundCycle)

\* ------------------------------------------- generateWinnersList (real part)
\* `P-***${user._id.toString().slice(-4)}`
maskedId(userId) == <<"P-***", userId>>

winnerEntry(bet) ==
    [id |-> maskedId(bet.userId), amount |-> bet.betAmount * 2, isReal |-> TRUE]

RECURSIVE insertByAmount(_, _)
\* where a stable descending sort puts entry e among the sorted entries ws
insertByAmount(ws, e) ==
    IF ws = <<>> THEN <<e>>
    ELSE IF Head(ws).amount >= e.amount
         THEN <<Head(ws)>> \o insertByAmount(Tail(ws), e)
         ELSE <<e>> \o ws

RECURSIVE sortByAmount(_)
sortByAmount(ws) ==
    IF ws = <<>> THEN <<>>
    ELSE insertByAmount(sortByAmount(SubSeq(ws, 1, Len(ws) - 1)), ws[Len(ws)])

\* The real entries of the list: they sort before every synthetic entry, by
\* amount descending, and the list is cut to 10.  The synthetic entries carry
\* random ids and amounts; the session model keeps only how many there are.
topWinners(winners) ==
    LET sorted == sortByAmount(winners)
    IN  SubSeq(sorted, 1, IF Len(sorted) < 10 THEN Len(sorted) ELSE 10)

\* generateSlotOutcome's return value with topWinners attached.  The reels of
\* the lobby grid are random and read by no operation of the session.
gameResult(decision, winners) ==
    [outcome |-> decision,
     winAmount |-> IF decision = "win" THEN 1 ELSE 0,
     topWinners |-> topWinners(winners),
     synthetic |-> 10 - Len(topWinners(winners))]

\* the first index j >= i of bets whose bet is on side, or 0
nextOnSide(bets, i, side) ==
    IF \E j \in i..Len(bets) : bets[j].side = side
    THEN CHOOSE j \in i..Len(bets) :
            /\ bets[j].side = side
            /\ \A k \in i..(j - 1) : bets[k].side # side
    ELSE 0

\* processPayouts without its test for 'anonymous': no bet is skipped
nextPayableAny(bets, i) == IF i <= Len(bets) THEN i ELSE 0

\* the first index j >= i of bets that processPayouts does not skip, or 0
nextPayable(bets, i) ==
    IF \E j \in i..Len(bets) : bets[j].userId # "anonymous"
    THEN CHOOSE j \in i..Len(bets) :
            /\ bets[j].userId # "anonymous"
            /\ \A k \in i..(j - 1) : bets[k].userId = "anonymous"
    ELSE 0

\* ------------------------------------------------------------------- tick
\* catch (error) { this.session.phase = 'BETTING'; this.session.timeLeft = 10; }
recover(s) == [s EXCEPT !.phase = "BETTING", !.timeLeft = 10]

\* startNewRound without `this.session.bets = []`
startNewRoundKeepsBets(s) ==
    [s EXCEPT !.roundCount = @ + 1,
              !.roundCycle = ((s.roundCount + 1 - 1) % 5) + 1,
              !.roundId = @ + 1,
              !.phase = "BETTING",
              !.timeLeft = ROUND_TIMES.BETTING,
              !.adminDecision = Null,
              !.result = NoResult]

startNewRound(s) ==
    [s EXCEPT !.roundCount = @ + 1,
              !.roundCycle = ((s.roundCount + 1 - 1) % 5) + 1,
              \* 'SB-' + Date.now(): ticks are at least a second apart, so the
              \* clock reads later than it did for the previous roundId
              !.roundId = @ + 1,
              !.phase = "BETTING",
              !.timeLeft = ROUND_TIMES.BETTING,
              !.bets = <<>>,
              !.adminDecision = Null,
              !.result = NoResult]

\* The tick's last part, from the return of nextPhase on.  fail = "none": the
\* tick ends normally, clearing activePlayers when the wall clock reads second
\* 0 (clear).  Otherwise something in the try block threw and the catch block
\* ran.  Either way finally re-arms the timer.
endTick(s, fail, clear) ==
    /\ session' = IF fail = "none" THEN s ELSE recover(s)
    /\ activePlayers' = IF fail = "none" /\ clear THEN {} ELSE activePlayers
    /\ faults' = IF fail = "none" THEN faults ELSE faults + 1
    /\ pc' = "timer"
    /\ frame' = IdleFrame

\* case 'SPINNING', after calculateResult returned
spinningDone(s, fail, clear) ==
    endTick([s EXCEPT !.phase = "RESULT", !.timeLeft = ROUND_TIMES.RESULT],
            fail, clear)

\* processPayouts' loop, about to look at bets[i]
payoutsFrom(s, decision, i, fail, clear) ==
    LET j == nextPayable(s.bets, i)
    IN  IF j = 0
        THEN spinningDone(s, fail, clear)
        ELSE /\ fail = "none" /\ ~clear
             /\ session' = s
             /\ pc' = "payFind"
             /\ frame' = [decision |-> decision, i |-> j, winners |-> <<>>]
             /\ UNCHANGED <<activePlayers, faults>>

\* processPayouts' catch block: the loop is left, the function returns
payoutsAbort(s, fail, clear) == spinningDone(s, fail, clear)

\* calculateResult from generateWinnersList's return on
winnersDone(s, decision, winners, fail, clear) ==
    payoutsFrom([s EXCEPT !.result = gameResult(decision, winners)],
                decision, 1, fail, clear)

\* generateWinnersList's loop, about to look at bets[i]
winnersFrom(s, decision, i, winners, fail, clear) ==
    LET j == nextOnSide(s.bets, i, decision)
    IN  IF j = 0
        THEN winnersDone(s, decision, winners, fail, clear)
        ELSE /\ fail = "none" /\ ~clear
             /\ session' = s
             /\ pc' = "winnersFind"
             /\ frame' = [decision |-> decision, i |-> j, winners |-> winners]
             /\ UNCHANGED <<activePlayers, faults>>

calculateResult(s, fail, clear) ==
    winnersFrom(s, decide(s), 1, <<>>, fail, clear)

\* nextPhase with case 'BETTING' missing its break: it runs on into 'SPINNING'
nextPhaseFallsThrough(s, fail, clear) ==
    CASE s.phase = "BETTING" ->
            calculateResult([s EXCEPT !.phase = "SPINNING",
                                      !.timeLeft = ROUND_TIMES.SPINNING],
                            fail, clear)
      [] s.phase = "SPINNING" -> calculateResult(s, fail, clear)
      [] s.phase = "RESULT" -> endTick(startNewRound(s), fail, clear)

\* nextPhase setting phase RESULT before it awaits calculateResult
nextPhaseFlipsFirst(s, fail, clear) ==
    CASE s.phase = "BETTING" ->
            endTick([s EXCEPT !.phase = "SPINNING",
                              !.timeLeft = ROUND_TIMES.SPINNING], fail, clear)
      [] s.phase = "SPINNING" ->
            calculateResult([s EXCEPT !.phase = "RESULT"], fail, clear)
      [] s.phase = "RESULT" -> endTick(startNewRound(s), fail, clear)

nextPhase(s, fail, clear) ==
    CASE s.phase = "BETTING" ->
            endTick([s EXCEPT !.phase = "SPINNING",
                              !.timeLeft = ROUND_TIMES.SPINNING], fail, clear)
      [] s.phase = "SPINNING" -> calculateResult(s, fail, clear)
      [] s.phase = "RESULT" -> endTick(startNewRound(s), fail, clear)

\* what a tick may do: end normally, throw before nextPhase has acted ("pre"),
\* or throw after nextPhase has returned ("post")
Fails == {"none", "pre", "post"}

\* the body of tick with `timeLeft < 0` for `timeLeft <= 0`
tickBodyLate(fail, clear) ==
    /\ LET s == [session EXCEPT !.timeLeft = @ - 1]
       IN  IF fail = "pre" THEN ~clear /\ endTick(s, fail, clear)
           ELSE IF s.timeLeft < 0 THEN nextPhase(s, fail, clear)
           ELSE fail = "none" /\ endTick(s, fail, clear)

\* the body of tick up to its first awaited operation
tickBody(fail, clear) ==
    /\ LET s == [session EXCEPT !.timeLeft = @ - 1]
       IN  IF fail = "pre" THEN ~clear /\ endTick(s, fail, clear)
           ELSE IF s.timeLeft <= 0 THEN nextPhase(s, fail, clear)
           ELSE fail = "none" /\ endTick(s, fail, clear)

\* setTimeout(tick, 1000) fires
tick(fail, clear) ==
    /\ pc = "timer"
    /\ tickBody(fail, clear)
    /\ thrown' = {}
    /\ UNCHANGED <<isRunning, balance, transactions, balanceHistories, nBets>>
    /\ UNCHANGED callVars

\* startLoop without its isRunning guard: every call starts a tick
startLoopUnguarded(fail, clear) ==
    /\ isRunning' = TRUE
    /\ tickBody(fail, clear)
    /\ UNCHANGED <<balance, transactions, balanceHistories, thrown, nBets>>
    /\ UNCHANGED callVars

startLoop(fail, clear) ==
    /\ IF isRunning
       THEN /\ fail = "none" /\ ~clear
            /\ UNCHANGED <<session, activePlayers, isRunning, pc, frame, faults>>
       ELSE /\ isRunning' = TRUE
            /\ tickBody(fail, clear)
    /\ UNCHANGED <<balance, transactions, balanceHistories, thrown, nBets>>
    /\ UNCHANGED callVars

\* how an awaited account or ledger operation ends
Outcomes == {"ok", "throw"}

\* generateWinnersList: await User.findById(bet.userId) is over.  A missing
\* user, a userId that is no account id ('anonymous') and a failed lookup all
\* add no entry; the try/catch around the lookup keeps the loop going.
winnersFindById(outcome, fail, clear) ==
    /\ pc = "winnersFind"
    /\ LET bet == session.bets[frame.i]
           found == outcome = "ok" /\ bet.userId \in Accounts
           winners == IF found THEN Append(frame.winners, winnerEntry(bet))
                      ELSE frame.winners
       IN  winnersFrom(session, frame.decision, frame.i + 1, winners, fail, clear)
    /\ UNCHANGED <<isRunning, balance, transactions, balanceHistories, thrown,
                   nBets>>
    /\ UNCHANGED callVars

\* processPayouts: await User.findById(bet.userId) is over
payoutFindById(outcome, fail, clear) ==
    /\ pc = "payFind"
    /\ LET bet == session.bets[frame.i]
       IN  IF outcome = "throw" THEN payoutsAbort(session, fail, clear)
           ELSE IF bet.userId \notin Accounts
           THEN payoutsFrom(session, frame.decision, frame.i + 1, fail, clear)
           ELSE /\ fail = "none" /\ ~clear
                /\ pc' = IF bet.side = frame.decision THEN "payUpdate" ELSE "payCreate"
                /\ UNCHANGED <<session, frame, activePlayers, faults>>
    /\ thrown' = IF outcome = "throw" THEN thrown \cup {frame.i} ELSE thrown
    /\ UNCHANGED <<isRunning, balance, transactions, balanceHistories, nBets>>
    /\ UNCHANGED callVars

\* const payout = betAmount * 2
payout(bet) == bet.betAmount * 2

\* processPayouts: await User.updateOne(..., { $inc: { balance: payout } }) is over
payoutUpdateOne(outcome, fail, clear) ==
    /\ pc = "payUpdate"
    /\ LET bet == session.bets[frame.i]
       IN  IF outcome = "throw"
           THEN /\ payoutsAbort(session, fail, clear)
                /\ UNCHANGED balance
           ELSE /\ fail = "none" /\ ~clear
                /\ balance' = [balance EXCEPT ![bet.userId] = @ + payout(bet)]
                /\ pc' = "payCreate"
                /\ UNCHANGED <<session, frame, activePlayers, faults>>
    /\ thrown' = IF outcome = "throw" THEN thrown \cup {frame.i} ELSE thrown
    /\ UNCHANGED <<isRunning, transactions, balanceHistories, nBets>>
    /\ UNCHANGED callVars

\* the document processPayouts hands to Transaction.create for bet
ledgerEntry(bet, decision, roundId) ==
    [user |-> bet.userId,
     type |-> IF bet.side = decision THEN "game_win" ELSE "game_loss",
     amount |-> IF bet.side = decision THEN payout(bet) ELSE bet.betAmount,
     status |-> "completed",
     roundId |-> roundId,
     betAmount |-> bet.betAmount,
     side |-> bet.side]

\* processPayouts: await Transaction.create(...) is over
payoutCreate(outcome, fail, clear) ==
    /\ pc = "payCreate"
    /\ LET bet == session.bets[frame.i]
       IN  IF outcome = "throw"
           THEN /\ payoutsAbort(session, fail, clear)
                /\ UNCHANGED transactions
           ELSE /\ transactions' =
                      Append(transactions,
                             ledgerEntry(bet, frame.decision, session.roundId))
                /\ payoutsFrom(session, frame.decision, frame.i + 1, fail, clear)
    /\ thrown' = IF outcome = "throw" THEN thrown \cup {frame.i} ELSE thrown
    /\ UNCHANGED <<isRunning, balance, balanceHistories, nBets>>
    /\ UNCHANGED callVars

\* --------------------------------------------------------------- handlers
\* what addBet returns in session s, with its two guards dropped
addBetReturnUnguarded(s) == [success |-> TRUE, message |-> Null]

\* what addBet returns in session s
addBetReturn(s) ==
    IF s.phase # "BETTING"
    THEN [success |-> FALSE, message |-> "Betting is closed"]
    ELSE IF s.timeLeft < 1
    THEN [success |-> FALSE, message |-> "Betting time expired"]
    ELSE [success |-> TRUE, message |-> Null]

\* addBet pushes the bet unless it has returned before the push
addBet(userId, betAmount, side) ==
    /\ isRunning
    /\ IF addBetReturn(session).success
       THEN /\ session' = [session EXCEPT !.bets =
                  Append(@, [userId |-> userId, betAmount |-> betAmount,
                             side |-> side])]
            /\ nBets' = nBets + 1
       ELSE UNCHANGED <<session, nBets>>
    /\ UNCHANGED <<activePlayers, isRunning, pc, frame, balance, transactions,
                   balanceHistories, thrown, faults>>
    /\ UNCHANGED callVars

\* setAdminDecision without its phase guard
setAdminDecisionAnyPhase(decision) ==
    /\ isRunning
    /\ session' = [session EXCEPT !.adminDecision = decision]
    /\ UNCHANGED <<activePlayers, isRunning, pc, frame, balance, transactions,
                   balanceHistories, thrown, faults, nBets>>
    /\ UNCHANGED callVars

setAdminDecision(decision) ==
    /\ isRunning
    /\ IF session.phase # "SPINNING"
       THEN UNCHANGED session
       ELSE session' = [session EXCEPT !.adminDecision = decision]
    /\ UNCHANGED <<activePlayers, isRunning, pc, frame, balance, transactions,
                   balanceHistories, thrown, faults, nBets>>
    /\ UNCHANGED callVars

\* new Set(bets.map(b => b.userId.toString()))
uniqueBetters(bets) == {bets[j].userId : j \in 1..Len(bets)}

Max(a, b) == IF a >= b THEN a ELSE b

\* the object getState returns, for the session s and the active set active
snapshot(s, active) ==
    [phase |-> s.phase,
     timeLeft |-> Max(0, s.timeLeft),
     roundId |-> s.roundId,
     roundCycle |-> IF s.roundCycle = Undefined THEN 1 ELSE s.roundCycle,
     adminDecision |-> s.adminDecision,
     result |-> s.result,
     betsCount |-> Len(s.bets),
     viewersCount |-> Max(0, Cardinality(active) - Cardinality(uniqueBetters(s.bets))),
     totalPlayers |-> Max(Cardinality(active), Len(s.bets)),
     betsTotals |-> [win |-> sideTotal(s.bets, "win"),
                     loss |-> sideTotal(s.bets, "loss")]]

\* getState without its test for the anonymous caller
getStateAddsAnyone(userId) ==
    /\ isRunning
    /\ activePlayers' = activePlayers \cup {userId}
    /\ UNCHANGED <<session, isRunning, pc, frame, balance, transactions,
                   balanceHistories, thrown, faults, nBets>>
    /\ UNCHANGED callVars

getState(userId) ==
    /\ isRunning
    /\ activePlayers' = IF userId # "anonymous"
                        THEN activePlayers \cup {userId} ELSE activePlayers
    /\ UNCHANGED <<session, isRunning, pc, frame, balance, transactions,
                   balanceHistories, thrown, faults, nBets>>
    /\ UNCHANGED callVars

\* ------------------------------------------------------------ environment
\* The calls and events the environment produces, within the bounds.

\* a tick may fail while fewer than budget ticks have failed
mayFail(fail, budget) == fail # "none" => faults < budget

\* the tick that is due next would start a round
startsRound == session.phase = "RESULT" /\ session.timeLeft <= 1

\* addBet would accept a bet now
bettingOpen == session.phase = "BETTING" /\ session.timeLeft >= 1

\* the service is constructed: the constructor calls startLoop
Construct ==
    /\ ~isRunning
    /\ startLoop("none", FALSE)

\* a start request while the loop is running
StartAgain ==
    /\ isRunning
    /\ startLoop("none", FALSE)

TimerFires(rounds, budget) ==
    \E fail \in Fails, clear \in BOOLEAN :
        /\ mayFail(fail, budget)
        /\ startsRound /\ fail # "pre" => session.roundCount < rounds
        /\ tick(fail, clear)

WinnersLookupReturns(outcomes, budget) ==
    \E o \in outcomes, fail \in Fails, clear \in BOOLEAN :
        mayFail(fail, budget) /\ winnersFindById(o, fail, clear)

PayoutLookupReturns(outcomes, budget) ==
    \E o \in outcomes, fail \in Fails, clear \in BOOLEAN :
        mayFail(fail, budget) /\ payoutFindById(o, fail, clear)

PayoutUpdateReturns(outcomes, budget) ==
    \E o \in outcomes, fail \in Fails, clear \in BOOLEAN :
        mayFail(fail, budget) /\ payoutUpdateOne(o, fail, clear)

PayoutCreateReturns(outcomes, budget) ==
    \E o \in outcomes, fail \in Fails, clear \in BOOLEAN :
        mayFail(fail, budget) /\ payoutCreate(o, fail, clear)

PlaceBet(players, stakes) ==
    \E u \in players, a \in stakes, d \in Sides :
        /\ bettingOpen => nBets < MaxBets
        /\ addBet(u, a, d)

SetOverride ==
    \E d \in Sides : setAdminDecision(d)

GetSnapshot(players) ==
    \E u \in players : getState(u)

\* ---------------------------------------------------------- specification
\* The lobby with up to `rounds` new rounds, `budget` failing ticks, awaited
\* operations ending as in `outcomes`, bets by `players` with a stake of
\* `stakes`, and snapshots asked for by `viewers`.
LobbyNext(rounds, budget, outcomes, players, stakes, viewers) ==
    \/ Construct
    \/ StartAgain
    \/ TimerFires(rounds, budget)
    \/ WinnersLookupReturns(outcomes, budget)
    \/ PayoutLookupReturns(outcomes, budget)
    \/ PayoutUpdateReturns(outcomes, budget)
    \/ PayoutCreateReturns(outcomes, budget)
    \/ PlaceBet(players, stakes)
    \/ SetOverride
    \/ GetSnapshot(viewers)

\* Settlement: every kind of bettor, account and ledger operations that may
\* throw, ticks that do not fail.
Next ==
    LobbyNext(MaxRounds, 0, Outcomes, PlayerIds, Stakes, {"anonymous"})

Spec == Init /\ [][Next]_vars

\* Tick failures: ticks that may fail and be recovered, account holders
\* betting a stake of 1, account and ledger operations that succeed.
FaultNext ==
    LobbyNext(MaxRounds, MaxFaults, {"ok"}, Accounts, {1}, {"anonymous"})

FaultSpec == Init /\ [][FaultNext]_vars

\* The 5-round cycle: enough rounds to go once around it, ticks that do not
\* fail, and guests betting: processPayouts skips their bets, so a round
\* leaves nothing behind in the collections.
CycleNext ==
    \/ Construct
    \/ StartAgain
    \/ TimerFires(MaxCycleRounds, 0)
    \/ WinnersLookupReturns(Outcomes, 0)
    \/ PlaceBet({"anonymous"}, Stakes)
    \/ SetOverride
    \/ GetSnapshot({"anonymous"})

CycleSpec == Init /\ [][CycleNext]_vars

\* Rounds: enough rounds to go once around the 5-round cycle, ticks that may
\* fail and be recovered, guests betting a stake of 1.
RoundNext ==
    \/ Construct
    \/ StartAgain
    \/ TimerFires(MaxCycleRounds, MaxFaults)
    \/ WinnersLookupReturns({"ok"}, MaxFaults)
    \/ PlaceBet({"anonymous"}, {1})
    \/ SetOverride
    \/ GetSnapshot({"anonymous"})

RoundSpec == Init /\ [][RoundNext]_vars

\* Snapshots: account holders and guests ask for snapshots and bet a stake
\* of 1; ticks do not fail and account and ledger operations succeed.
ViewNext ==
    LobbyNext(MaxRounds, 0, {"ok"}, Accounts \cup {"anonymous"}, {1},
              Accounts \cup {"anonymous"})

ViewSpec == Init /\ [][ViewNext]_vars

\* ================================================================= claims

\* what a snapshot taken now by an anonymous caller shows
snapshotNow == snapshot(session, activePlayers)

\* C1: a call of addBet while phase is BETTING and timeLeft >= 1 returns
\* success and appends exactly the bet it was given, so that a snapshot shows
\* betsCount one higher and the total of the bet's side higher by the stake;
\* any other call returns failure and leaves the whole session as it was.
C1_PlaceBet ==
    [][\A u \in PlayerIds, a \in Stakes, d \in Sides :
          addBet(u, a, d) =>
             IF session.phase = "BETTING" /\ session.timeLeft >= 1
             THEN /\ addBetReturn(session).success
                  /\ session' = [session EXCEPT !.bets =
                        Append(@, [userId |-> u, betAmount |-> a, side |-> d])]
                  /\ snapshotNow'.betsCount = snapshotNow.betsCount + 1
                  /\ snapshotNow'.betsTotals[d] = snapshotNow.betsTotals[d] + a
                  /\ \A o \in Sides \ {d} :
                        snapshotNow'.betsTotals[o] = snapshotNow.betsTotals[o]
             ELSE /\ ~addBetReturn(session).success
                  /\ session' = session]_vars

\* C1 witness: a bet was accepted into a round that already held one
C1_Witness ==
    /\ session.phase = "BETTING"
    /\ Len(session.bets) = 2
    /\ session.bets[2].betAmount = 2

CycleEdges ==
    {<<"BETTING", "SPINNING">>, <<"SPINNING", "RESULT">>, <<"RESULT", "BETTING">>}

\* C2 as stated: the phase starts as BETTING and every step keeps it or moves
\* it along BETTING -> SPINNING -> RESULT -> BETTING, a failed tick's step
\* included.
C2_PhaseCycleOnly ==
    /\ session.phase = "BETTING"
    /\ [][\/ session'.phase = session.phase
          \/ <<session.phase, session'.phase>> \in CycleEdges]_vars

\* C2 amended: the phase starts as BETTING and every step keeps it, moves it
\* along the cycle, or is the recovery of a failed tick, which sets it to
\* BETTING whatever it was.
C2_PhaseCycleOrRecovery ==
    /\ session.phase = "BETTING"
    /\ [][\/ session'.phase = session.phase
          \/ <<session.phase, session'.phase>> \in CycleEdges
          \/ /\ faults' = faults + 1
             /\ session'.phase = "BETTING"
             /\ session'.timeLeft = 10]_vars

\* C2 witness: a tick failed after the round had reached SPINNING (an override
\* is set, which only SPINNING accepts and only a new round clears), and the
\* session is back in BETTING in the same round
C2_Witness ==
    /\ faults = 1
    /\ session.phase = "BETTING"
    /\ session.adminDecision # Null
    /\ session.result = NoResult

\* the summed stake of the bets of the round on side
stakeOn(side) ==
    LET RECURSIVE upTo(_)
        upTo(n) ==
            IF n = 0 THEN 0
            ELSE upTo(n - 1)
                 + (IF session.bets[n].side = side
                    THEN session.bets[n].betAmount ELSE 0)
    IN  upTo(Len(session.bets))

\* the side with the smaller summed stake, 'loss' when the two are equal
smallerSide == IF stakeOn("loss") > stakeOn("win") THEN "win" ELSE "loss"

\* the side with the greater summed stake, 'win' when the two are equal
greaterSide == IF stakeOn("loss") > stakeOn("win") THEN "loss" ELSE "win"

\* calculateResult is running: the tick is at one of its awaits
settling == pc \in {"winnersFind", "payFind", "payUpdate", "payCreate"}

\* C3: with no override set, the decision computed at the end of SPINNING is
\* the side with the smaller summed stake in cycle positions 1 to 4 and the
\* side with the greater summed stake in position 5, equal totals (no bets
\* included) making 'win' the greater and 'loss' the smaller side.  The
\* decision is calculateResult's local while it runs and the published
\* result's outcome afterwards; the round's bets and cycle position stay as
\* they were when it was computed until the next round starts.
C3_CycleDecision ==
    session.adminDecision = Null /\ session.roundCycle \in 1..5 =>
        LET expected == IF session.roundCycle = 5 THEN greaterSide ELSE smallerSide
        IN  /\ settling => frame.decision = expected
            /\ session.result # NoResult => session.result.outcome = expected

\* C3 witness: position 5 was decided without an override for the side with
\* the greater stake, which is 'loss'
C3_Witness ==
    /\ session.adminDecision = Null
    /\ session.roundCycle = 5
    /\ session.phase = "RESULT"
    /\ stakeOn("loss") > stakeOn("win")
    /\ stakeOn("win") > 0
    /\ session.result.outcome = "loss"

\* ---------------------------------------------------- settlement, observed
\* the indices of the round's bets
betIdx == 1..Len(session.bets)

\* the result of the round has just been published: SPINNING's last tick and
\* the settlement it ran are over
published ==
    /\ session.phase = "RESULT"
    /\ session.timeLeft = ROUND_TIMES.RESULT
    /\ pc = "timer"

\* the indices of the ledger records of the current round
roundTxs == {k \in 1..Len(transactions) : transactions[k].roundId = session.roundId}

\* the indices of the round's bets placed by u on the published outcome / not on it
winningBets(u) ==
    {j \in betIdx : session.bets[j].userId = u
                    /\ session.bets[j].side = session.result.outcome}

losingBets(u) ==
    {j \in betIdx : session.bets[j].userId = u
                    /\ session.bets[j].side # session.result.outcome}

\* the summed stake of the bets whose indices are in js
stakeOf(js) ==
    LET RECURSIVE upTo(_)
        upTo(n) ==
            IF n = 0 THEN 0
            ELSE upTo(n - 1) + (IF n \in js THEN session.bets[n].betAmount ELSE 0)
    IN  upTo(Len(session.bets))

\* the indices of the round's ledger records of the given type that describe
\* a bet of u with this stake and side
recordsOf(u, type, amount, bet) ==
    {k \in roundTxs : /\ transactions[k].user = u
                      /\ transactions[k].type = type
                      /\ transactions[k].amount = amount
                      /\ transactions[k].betAmount = bet.betAmount
                      /\ transactions[k].side = bet.side}

\* C4: an override accepted while the phase is SPINNING, the settlement's
\* waits included, is the published decision of the round, and every bet of
\* the round is settled against it.  In RESULT, adminDecision is the last
\* override the round's SPINNING accepted: only SPINNING accepts one and only
\* the next round clears it.  Settlements in which an operation failed are
\* left aside.
C4_OverrideHonoured ==
    published /\ session.adminDecision # Null /\ thrown = {} =>
        /\ session.result.outcome = session.adminDecision
        /\ \A k \in roundTxs :
              (transactions[k].type = "game_win")
                 <=> (transactions[k].side = session.adminDecision)

\* C5: when the first round is settled, an account holder whose bets are all
\* on the decision has the balance raised by twice each stake, and the ledger
\* has one game_win record per such bet, with amount twice the stake, the
\* round's id, the stake and the side.
C5_WinCredited ==
    published /\ session.roundCount = 0 =>
        \A u \in Accounts :
            winningBets(u) # {} /\ losingBets(u) = {} =>
                /\ balance[u] = InitBalance + 2 * stakeOf(winningBets(u))
                /\ \A j \in winningBets(u) :
                      Cardinality(recordsOf(u, "game_win",
                                            2 * session.bets[j].betAmount,
                                            session.bets[j]))
                        = Cardinality({i \in winningBets(u) :
                                          session.bets[i] = session.bets[j]})

\* C6: no balance is ever negative, and when the first round is settled with
\* no operation having failed, an account holder whose bets are all against
\* the decision has the balance lowered by each stake, not below 0, and the
\* ledger has one game_loss record per such bet.
C6_LossDebited ==
    /\ \A u \in Accounts : balance[u] >= 0
    /\ published /\ session.roundCount = 0 /\ thrown = {} =>
          \A u \in Accounts :
              losingBets(u) # {} /\ winningBets(u) = {} =>
                  /\ balance[u] = Max(0, InitBalance - stakeOf(losingBets(u)))
                  /\ Cardinality({k \in roundTxs :
                                     /\ transactions[k].user = u
                                     /\ transactions[k].type = "game_loss"})
                        = Cardinality(losingBets(u))

\* s is t or t with records appended
extends(s, t) == Len(s) >= Len(t) /\ SubSeq(s, 1, Len(t)) = t

\* C7: when the first round is settled with no operation having failed, the
\* Transaction collection and the BalanceHistory collection each hold one
\* record per bet of an account holder; and no step changes or removes a
\* record of either collection.
C7_OneOfEach ==
    /\ [](published /\ session.roundCount = 0 /\ thrown = {} =>
            LET settled == {j \in betIdx : session.bets[j].userId \in Accounts}
            IN  /\ Len(transactions) = Cardinality(settled)
                /\ Len(balanceHistories) = Cardinality(settled))
    /\ [][/\ extends(transactions', transactions)
          /\ extends(balanceHistories', balanceHistories)]_vars

\* the sum of the amounts of the ledger records of u of the given type
ledgerSum(u, type) ==
    LET RECURSIVE upTo(_)
        upTo(n) ==
            IF n = 0 THEN 0
            ELSE upTo(n - 1)
                 + (IF transactions[n].user = u /\ transactions[n].type = type
                    THEN transactions[n].amount ELSE 0)
    IN  upTo(Len(transactions))

\* C8, first half: while no settlement is running, what the balances have
\* gained is what the game_win records say: a credit whose record failed is
\* not there
C8_CreditHasRecord ==
    pc = "timer" =>
        \A u \in Accounts :
            balance[u] >= InitBalance
               => balance[u] - InitBalance = ledgerSum(u, "game_win")

\* C8, second half: while no settlement is running, every record is matched by
\* the balance change it describes (the bounds keep the debits below
\* InitBalance, so no debit is clamped)
C8_RecordHasChange ==
    pc = "timer" =>
        \A u \in Accounts :
            balance[u] = InitBalance + ledgerSum(u, "game_win")
                                     - ledgerSum(u, "game_loss")

\* C8: a bet's balance change and its ledger record persist together or not
\* at all
C8_Atomic == C8_CreditHasRecord /\ C8_RecordHasChange

\* C9: when a round is published, every bet of an account holder is settled
\* (has its ledger record) unless one of its own operations failed, whatever
\* happened to the bets before it
C9_OthersSettle ==
    published =>
        Cardinality(roundTxs)
           = Cardinality({j \in betIdx : /\ session.bets[j].userId \in Accounts
                                         /\ j \notin thrown})

\* ------------------------------------------------------------ the tick loop
\* The timer is the only thing the code makes sure of: a pending setTimeout
\* fires.  Nothing in the code bounds the time an awaited account or ledger
\* operation takes.
LiveSpec == FaultSpec /\ WF_vars(TimerFires(MaxRounds, MaxFaults))

Phases == {"BETTING", "SPINNING", "RESULT"}

\* the model's last round is in RESULT: the tick that would start the next
\* round is beyond the bound
horizon == session.phase = "RESULT" /\ session.roundCount >= MaxRounds

\* C10: the step of a failed tick leaves phase BETTING and timeLeft 10 with
\* the next tick scheduled, and once the loop is started every phase the
\* session is in is eventually left (short of the model's last round).
C10_TickLoopContinues ==
    /\ [][faults' = faults + 1 =>
             /\ session'.phase = "BETTING"
             /\ session'.timeLeft = ROUND_TIMES.BETTING
             /\ pc' = "timer"
             /\ isRunning']_vars
    /\ \A p \in Phases :
          (isRunning /\ session.phase = p /\ ~horizon) ~> (session.phase # p)

\* C11: whenever the phase is SPINNING with the timer run out (the settlement
\* is at one of its awaits), the tick eventually ends with the phase advanced
\* to RESULT, or recovered to BETTING when the tick failed, and the next tick
\* scheduled, whether or not the awaited operation ever returns.
C11_SettlementCannotStall ==
    (isRunning /\ session.phase = "SPINNING" /\ session.timeLeft <= 0)
        ~> (pc = "timer" /\ session.phase \in {"RESULT", "BETTING"})

\* a tick is in flight: it is waiting at one of the settlement's awaits
tickInFlight == settling

\* C12: a start request while the loop is running changes nothing, and a step
\* that counts timeLeft down is taken only when no tick is in flight: by the
\* constructor's first tick or by the pending timer.
C12_OneTickLoop ==
    [][/\ isRunning /\ startLoop("none", FALSE) => UNCHANGED vars
       /\ session'.timeLeft = session.timeLeft - 1
             => ~tickInFlight /\ pc \in {"new", "timer"}]_vars

\* C12 witness: a start request can arrive while a tick is in flight, waiting
\* on the ledger write of the second bet
C12_Witness ==
    /\ isRunning
    /\ pc = "payCreate"
    /\ frame.i = 2

\* processPayouts is running: the tick is at one of its awaits
paying == pc \in {"payFind", "payUpdate", "payCreate"}

C14_CyclePosition ==
    /\ snapshotNow.roundCycle \in 1..5
    /\ snapshotNow.roundCycle = (session.roundCount % 5) + 1
    /\ session.phase = "RESULT" /\ session.adminDecision = Null =>
          session.result.outcome =
             (IF session.roundCount % 5 = 4 THEN greaterSide ELSE smallerSide)

\* C15: a call of setAdminDecision while the phase is BETTING or RESULT
\* changes nothing at all: adminDecision keeps its value, and with the whole
\* state as it was, the decisions of this round and the next are what they
\* would have been without the call.
C15_OverrideIgnored ==
    [][\A d \in Sides :
          setAdminDecision(d) /\ session.phase \in {"BETTING", "RESULT"}
             => UNCHANGED vars]_vars

\* C15 witness: the phase is RESULT with the override 'win' stored and
\* published: a call with 'loss' now is one the claim is about
C15_Witness ==
    /\ session.phase = "RESULT"
    /\ session.adminDecision = "win"
    /\ session.result.outcome = "win"
    /\ Len(session.bets) > 0

\* ==================================================== generateSlotOutcome
SYMBOLS ==
    <<"oval", "grapes", "watermelon", "apple", "plum", "banana", "heart">>

\* a symbol is named by its index in SYMBOLS
SymbolIds == 1..Len(SYMBOLS)

\* Array(6) of Array(5)
Columns == 6

Rows == 5

Cells == Columns * Rows

\* while (count < 12)
WinCount == 12

\* if (count >= 8)
LossCap == 8

\* how far above LossCap - 1 the count of a symbol of an initial grid goes
MaxOver == 4

\* The grid is kept as the number of cells that hold each symbol.  Neither
\* loop of generateSlotOutcome looks at where a cell is: the 'win' loop picks a
\* cell at random, and the 'loss' loop leaves the first 7 cells of a symbol
\* and replaces every further one, whatever the scanning order.

\* a grid with a cells of symbol h, the others spread evenly over the rest
evenGrid(h, a) ==
    [k \in SymbolIds |->
        IF k = h THEN a
        ELSE LET rank == IF k < h THEN k ELSE k - 1
                 rest == Cells - a
                 others == Len(SYMBOLS) - 1
             IN  (rest \div others) + (IF rank <= rest % others THEN 1 ELSE 0)]

\* a grid with a cells of symbol h and symbol h's successor in all the others
pairGrid(h, a) ==
    [k \in SymbolIds |->
        IF k = h THEN a
        ELSE IF k = (h % Len(SYMBOLS)) + 1 THEN Cells - a
        ELSE 0]

\* generateSlotOutcome(decision) has drawn its grid and, for 'win', winSym
genStart(decision, winSym) ==
    [at |-> decision, decision |-> decision, winSym |-> winSym, sym |-> 1,
     count |-> 0, spin |-> FALSE]

\* return { reels, outcome: decision, winAmount: decision === 'win' ? 1 : 0 }
genReturn(g) ==
    [at |-> "done", decision |-> g.decision, winSym |-> g.winSym,
     sym |-> g.sym, count |-> g.count, spin |-> g.spin,
     outcome |-> g.decision,
     winAmount |-> IF g.decision = "win" THEN 1 ELSE 0]

\* 'win' loop, one iteration whose random cell holds symbol s, not winSym:
\* the cell is set to winSym and counted
winHit(s) ==
    /\ gen.at = "win"
    /\ gen.count < WinCount
    /\ s # gen.winSym
    /\ reels[s] > 0
    /\ reels' = [reels EXCEPT ![s] = @ - 1, ![gen.winSym] = @ + 1]
    /\ gen' = [gen EXCEPT !.count = @ + 1]
    /\ UNCHANGED <<lobbyVars, balance, transactions, balanceHistories, list,
                   plays>>

\* 'win' loop, one iteration whose random cell already holds winSym: nothing
\* is set or counted (spin tells one such iteration from the next)
winMiss ==
    /\ gen.at = "win"
    /\ gen.count < WinCount
    /\ reels[gen.winSym] > 0
    /\ gen' = [gen EXCEPT !.spin = ~@]
    /\ UNCHANGED <<lobbyVars, balance, transactions, balanceHistories, list,
                   plays, reels>>

\* 'win': the loop is left with count = 12
winReturn ==
    /\ gen.at = "win"
    /\ gen.count >= WinCount
    /\ gen' = genReturn(gen)
    /\ UNCHANGED <<lobbyVars, balance, transactions, balanceHistories, list,
                   plays, reels>>

\* 'loss' loop for the symbol gen.sym: the scan has met an 8th or later cell
\* of the symbol and sets it to nextSym, drawn until it differs
lossReplace(nextSym) ==
    /\ gen.at = "loss"
    /\ reels[gen.sym] >= LossCap
    /\ nextSym # gen.sym
    /\ reels' = [reels EXCEPT ![gen.sym] = @ - 1, ![nextSym] = @ + 1]
    /\ UNCHANGED <<lobbyVars, balance, transactions, balanceHistories, list,
                   plays, gen>>

\* 'loss' loop: the scan for gen.sym is over; on to the next symbol, or return
lossNext ==
    /\ gen.at = "loss"
    /\ reels[gen.sym] < LossCap
    /\ gen' = IF gen.sym < Len(SYMBOLS) THEN [gen EXCEPT !.sym = @ + 1]
              ELSE genReturn(gen)
    /\ UNCHANGED <<lobbyVars, balance, transactions, balanceHistories, list,
                   plays, reels>>

\* ------------------------------------------------------------ environment
WinHits == \E s \in SymbolIds : winHit(s)

WinMisses == winMiss

WinReturns == winReturn

LossReplaces == \E nextSym \in SymbolIds : lossReplace(nextSym)

LossAdvances == lossNext

\* generateSlotOutcome is called: for 'loss' on a grid with one symbol up to
\* MaxOver over the cap and the others spread evenly, for 'win' on a grid of
\* two symbols in any proportion
GridInit ==
    /\ LobbyInit
    /\ list = ListIdle
    /\ plays = NoPlays
    /\ \E decision \in Sides, h \in SymbolIds, winSym \in SymbolIds :
          /\ gen = genStart(decision, IF decision = "win" THEN winSym ELSE 0)
          /\ IF decision = "win"
             THEN \E a \in 0..Cells : reels = pairGrid(h, a)
             ELSE \E a \in 0..(LossCap - 1 + MaxOver) : reels = evenGrid(h, a)

GridNext ==
    \/ WinHits
    \/ WinMisses
    \/ WinReturns
    \/ LossReplaces
    \/ LossAdvances

GridSpec == GridInit /\ [][GridNext]_vars

\* The loops keep running, and with random draws an iteration of the 'win'
\* loop that can set a cell does so eventually; a loop that is over returns.
GridLiveSpec ==
    /\ GridSpec
    /\ WF_vars(WinHits)
    /\ WF_vars(WinMisses)
    /\ WF_vars(WinReturns)
    /\ WF_vars(LossReplaces)
    /\ WF_vars(LossAdvances)

\* C16: the grid generateSlotOutcome returns for 'loss' holds no symbol in 8
\* or more cells.
C16_LossGridBelowCap ==
    gen.at = "done" /\ gen.decision = "loss" =>
        \A k \in SymbolIds : reels[k] < 8

\* C17: a call of generateSlotOutcome for 'win' returns, with some symbol in
\* 12 or more cells of the grid and winAmount 1.
C17_WinGridReturned ==
    (gen.at = "win")
        ~> (/\ gen.at = "done"
            /\ \E k \in SymbolIds : reels[k] >= 12
            /\ gen.winAmount = 1)

\* ==================================================== generateWinnersList
\* how many real winners a round has at most
MaxReal == 11

\* Math.floor(Math.random() * 4900) + 100: the least and the greatest value
FakeAmounts == {100, 4999}

\* { id: `P-***${Math.floor(1000 + Math.random() * 9000)}`, amount, isReal: false }
fakeEntry(amount) ==
    [id |-> <<"P-***", "random">>, amount |-> amount, isReal |-> FALSE]

\* the comparator with the amounts the other way round
winnersBeforeAscending(a, b) ==
    IF a.isReal # b.isReal THEN a.isReal ELSE a.amount <= b.amount

\* the comparator of the sort puts a before b, or leaves them in their order
winnersBefore(a, b) ==
    IF a.isReal # b.isReal THEN a.isReal ELSE a.amount >= b.amount

RECURSIVE insertWinner(_, _)
\* where the (stable) sort puts entry e among the sorted entries ws that
\* precede it in the array
insertWinner(ws, e) ==
    IF ws = <<>> THEN <<e>>
    ELSE IF winnersBefore(Head(ws), e)
         THEN <<Head(ws)>> \o insertWinner(Tail(ws), e)
         ELSE <<e>> \o ws

RECURSIVE sortWinners(_)
\* winners.sort((a, b) => ...)
sortWinners(ws) ==
    IF ws = <<>> THEN <<>>
    ELSE insertWinner(sortWinners(SubSeq(ws, 1, Len(ws) - 1)), ws[Len(ws)])

\* .slice(0, 10)
firstTen(ws) == SubSeq(ws, 1, IF Len(ws) < 10 THEN Len(ws) ELSE 10)

\* generateWinnersList(slotOutcome, gameResult) is called
listStart(decision) ==
    [at |-> "bets", decision |-> decision, winners |-> <<>>, target |-> 0,
     out |-> <<>>]

\* the for loop looks at one bet of the round; for a bet on the decided side
\* the awaited User.findById ends as outcome says.  A missing user, a userId
\* that is no account id and a failed lookup add no entry.
listBet(bet, outcome) ==
    /\ list.at = "bets"
    /\ list' = IF /\ bet.side = list.decision
                  /\ outcome = "ok"
                  /\ bet.userId \in Accounts
               THEN [list EXCEPT !.winners = Append(@, winnerEntry(bet))]
               ELSE list
    /\ UNCHANGED <<lobbyVars, balance, transactions, balanceHistories, reels,
                   gen, plays>>

\* the for loop is over: targetCount = Math.max(10, winners.length + 3)
listBetsDone ==
    /\ list.at = "bets"
    /\ list' = [list EXCEPT !.at = "fakes",
                            !.target = Max(10, Len(list.winners) + 3)]
    /\ UNCHANGED <<lobbyVars, balance, transactions, balanceHistories, reels,
                   gen, plays>>

\* while (winners.length < targetCount): one synthetic entry is pushed
listFake(amount) ==
    /\ list.at = "fakes"
    /\ Len(list.winners) < list.target
    /\ list' = [list EXCEPT !.winners = Append(@, fakeEntry(amount))]
    /\ UNCHANGED <<lobbyVars, balance, transactions, balanceHistories, reels,
                   gen, plays>>

\* return winners.sort(...).slice(0, 10)
listReturn ==
    /\ list.at = "fakes"
    /\ Len(list.winners) >= list.target
    /\ list' = [list EXCEPT !.at = "done",
                            !.out = firstTen(sortWinners(list.winners))]
    /\ UNCHANGED <<lobbyVars, balance, transactions, balanceHistories, reels,
                   gen, plays>>

\* ------------------------------------------------------------ environment
\* the bets a round can hold
Bets == [userId : PlayerIds, betAmount : Stakes, side : Sides]

ListBets ==
    \E bet \in Bets, outcome \in Outcomes :
        /\ Len(list.winners) < MaxReal
        /\ listBet(bet, outcome)

ListBetsDone == listBetsDone

ListFakes == \E amount \in FakeAmounts : listFake(amount)

ListReturns == listReturn

ListInit ==
    /\ LobbyInit
    /\ reels = NoGrid
    /\ gen = GenIdle
    /\ plays = NoPlays
    /\ \E decision \in Sides : list = listStart(decision)

ListNext ==
    \/ ListBets
    \/ ListBetsDone
    \/ ListFakes
    \/ ListReturns

ListSpec == ListInit /\ [][ListNext]_vars

\* how many entries of ws equal e
occurrences(ws, e) == Cardinality({i \in 1..Len(ws) : ws[i] = e})

\* C18: the list generateWinnersList returns has at most 10 entries, its real
\* entries before its synthetic ones, amounts non-increasing among the real
\* and among the synthetic entries, and no real entry that was not pushed for
\* a bet; an entry is pushed as real only for a bet on the decided side whose
\* account exists, with twice its stake as amount; and no step of the call
\* changes a balance or a collection.
C18_WinnersList ==
    /\ [](list.at = "done" =>
            /\ Len(list.out) <= 10
            /\ \A i, j \in 1..Len(list.out) :
                  i < j =>
                     /\ list.out[j].isReal => list.out[i].isReal
                     /\ list.out[i].isReal = list.out[j].isReal
                           => list.out[i].amount >= list.out[j].amount
            /\ \A i \in 1..Len(list.out) :
                  list.out[i].isReal =>
                     occurrences(list.out, list.out[i])
                        <= occurrences(list.winners, list.out[i]))
    /\ [][/\ \A bet \in Bets, outcome \in Outcomes :
                listBet(bet, outcome) /\ list' # list =>
                   /\ bet.side = list.decision
                   /\ bet.userId \in Accounts
                   /\ list'.winners =
                         Append(list.winners,
                                [id |-> maskedId(bet.userId),
                                 amount |-> 2 * bet.betAmount,
                                 isReal |-> TRUE])
          /\ list.at = "fakes" =>
                \A i \in 1..Len(list'.winners) :
                   list'.winners[i].isReal => i <= Len(list.winners)
          /\ list' # list =>
                UNCHANGED <<balance, transactions, balanceHistories>>]_vars

\* C18 witness: 11 real winners of different amounts were found, so that the
\* list of 14 was cut to its first 10, all of them real
C18_Witness ==
    /\ list.at = "done"
    /\ Len(list.winners) = 14
    /\ Len(list.out) = 10
    /\ list.out[10].isReal
    /\ list.out[1].amount > list.out[10].amount

\* ================================================================ playGame
\* Money of the solo game is counted in thousandths of a currency unit, so
\* that the products of a bet with the multipliers below are whole numbers
\* for every bet that is a multiple of a tenth.
One == 1000

\* Math.floor(x * 100) / 100
floorToCents(x) == (x \div 10) * 10

\* const MAX_BET = 1000000
MAX_BET == 1000000 * One

\* user.status as User.findById finds it
AccountStatuses == {"active", "pending", "suspended"}

\* SYMBOL_MULTIPLIERS in tenths, for the second least and the greatest
BaseMultipliers == {11, 200}

\* What generateReelResult reads of the grid it draws: for one key (row and
\* symbol) the symbol's multiplier and the number of reels that show it, the
\* number of scatter symbols on the grid, and the two chance draws
\* (Math.random() < 0.3, Math.random() < 0.2).  The other keys of the grid
\* hold fewer than 3 symbols.
Grids ==
    [base : BaseMultipliers, count : {2, 3, 4, 6}, lucky : BOOLEAN,
     scatterCount : {0, 3, 5}, luckyScatter : BOOLEAN]

\* the multiplier of the key in hundredths, 0 for no win
lineMultiplier(g) ==
    IF g.count >= 5 THEN g.base * (g.count - 4) * 7
    ELSE IF g.count >= 4 THEN g.base * 6
    ELSE IF g.count = 3 /\ g.lucky THEN g.base * 4
    ELSE 0

\* the scatter multiplier in hundredths, 0 for no win
scatterMultiplier(g) ==
    IF g.scatterCount >= 5
    THEN (IF g.scatterCount = 5 THEN 150
          ELSE IF g.scatterCount >= 6 THEN 250 ELSE 0)
    ELSE IF g.scatterCount >= 4 THEN 100
    ELSE IF g.scatterCount = 3 /\ g.luckyScatter THEN 60
    ELSE 0

\* generateReelResult(betAmount).winAmount for the grid g
generateReelResult(betAmount, g) ==
    floorToCents((betAmount * lineMultiplier(g)) \div 100
                 + (betAmount * scatterMultiplier(g)) \div 100)

\* the four branches of `random`: < 0.25, < 0.6, < 0.85, the rest
Bands == 1..4

\* the second Math.random(), in fifths
LossDraws == 0..4

\* lossMultiplier in hundredths
lossMultiplier(band, draw) ==
    CASE band = 1 -> 100 + 3 * draw
      [] band = 2 -> 115 + 4 * draw
      [] band = 3 -> 135 + 5 * draw
      [] band = 4 -> 160 + 4 * draw

\* actualLoss without the two clamps to userBalance
actualLossUnclamped(bet, actualWin, multiplier, userBalance) ==
    IF actualWin = 0 THEN Max(0, (bet * multiplier) \div 100) ELSE bet

\* actualLoss as lines 227..267 leave it
actualLoss(bet, actualWin, multiplier, userBalance) ==
    LET drawn == (bet * multiplier) \div 100
        loss  == IF actualWin = 0
                 THEN Max(0, IF drawn > userBalance THEN userBalance ELSE drawn)
                 ELSE bet
    IN  Max(0, IF loss < userBalance THEN loss ELSE userBalance)

\* a request that has not been made
PlayIdle == [at |-> "idle"]

\* the response of a request that ended with an error
playError(p, code) ==
    [at |-> "done", code |-> code, user |-> p.user, message |-> p.message]

\* an error is on its way to the caller: session.abortTransaction() is
\* awaited, for a transaction that has written the account (wrote) or not
playAbort(p, code, message, wrote) ==
    [at |-> "abort", code |-> code, user |-> p.user, message |-> message,
     wrote |-> wrote]

\* how many committed writes the account of userId has seen: every commit of
\* a play appends one Transaction of that user
accountVersion(userId) ==
    Cardinality({i \in 1..Len(transactions) : transactions[i].user = userId})

\* the transaction of the request with locals q has written the account and
\* is neither committed nor aborted
holdsWriteLock(q) ==
    \/ q.at \in {"saveWin", "saveTotal", "txCreate", "bhCreate", "commit"}
    \/ q.at = "abort" /\ q.wrote

\* a transaction that never meets a write conflict
writeConflictNever(r) == FALSE

\* the first write of request r's transaction to its account meets a write
\* conflict: another open transaction has written the account, or a write
\* to the account was committed after this transaction's snapshot was taken
writeConflict(r) ==
    \/ \E o \in DOMAIN plays \ {r} :
          /\ holdsWriteLock(plays[o])
          /\ plays[o].user = plays[r].user
    \/ accountVersion(plays[r].user) > plays[r].version

\* transactionData (lines 301..322) for the locals p
transactionData(p) ==
    [user |-> p.user,
     type |-> IF p.actualWin > 0 THEN "game_win" ELSE "game_loss",
     amount |-> IF p.netChange < 0 THEN -p.netChange ELSE p.netChange,
     status |-> "completed",
     metadata |-> [gameType |-> "sweet-bonanza",
                   betAmount |-> p.bet,
                   actualLoss |-> p.actualLoss,
                   winAmount |-> p.actualWin,
                   netChange |-> p.netChange,
                   balanceBefore |-> p.initialBalance,
                   balanceAfter |-> p.balance]]

\* balanceHistoryData (lines 333..359) for the locals p
balanceHistoryData(p) ==
    [user |-> p.user,
     changeType |-> IF p.actualWin > 0 THEN "win" ELSE "loss",
     previousBalance |-> p.initialBalance,
     newBalance |-> p.balance,
     change |-> p.netChange,
     referenceType |-> "game",
     gameOutcome |-> [gameType |-> "sweet-bonanza",
                      outcome |-> IF p.actualWin > 0 THEN "win" ELSE "loss",
                      amount |-> IF p.netChange < 0 THEN -p.netChange
                                 ELSE p.netChange]]

\* playGame is called: the bet is validated, mongoose.startSession() awaited
playGame(r, userId, betAmount) ==
    /\ plays[r].at = "idle"
    /\ plays' = [plays EXCEPT ![r] =
                    IF betAmount = 0 \/ betAmount < One \/ betAmount > MAX_BET
                    THEN [at |-> "done", code |-> 400, user |-> userId,
                          message |-> "Bet amount"]
                    ELSE [at |-> "startSession", user |-> userId,
                          bet |-> betAmount]]
    /\ UNCHANGED <<lobbyVars, balance, transactions, balanceHistories, reels,
                   gen, list>>

\* the session is there: startTransaction(), User.findById(...) awaited
playStart(r) ==
    /\ plays[r].at = "startSession"
    /\ plays' = [plays EXCEPT ![r].at = "find"]
    /\ UNCHANGED <<lobbyVars, balance, transactions, balanceHistories, reels,
                   gen, list>>

\* User.findById is over.  A missing account, an account that may not play
\* and a balance below the bet end in abortTransaction and an error; else
\* the grid g and the loss multiplier are drawn, the loss is taken off
\* user.balance, and user.save awaited.
playFound(r, outcome, status, g, band, draw) ==
    /\ plays[r].at = "find"
    /\ LET p == plays[r]
           userBalance == IF p.user \in DOMAIN balance THEN balance[p.user]
                          ELSE 0
           actualWin == Max(0, generateReelResult(p.bet, g))
           multiplier == lossMultiplier(band, draw)
           loss == actualLoss(p.bet, actualWin, multiplier, userBalance)
       IN  plays' = [plays EXCEPT ![r] =
              IF outcome = "throw"
              THEN playAbort(p, 500, "findById", FALSE)
              ELSE IF p.user \notin DOMAIN balance
              THEN playAbort(p, 404, "User not found", FALSE)
              ELSE IF status \notin {"active", "pending"}
              THEN playAbort(p, 403, "Account is", FALSE)
              ELSE IF userBalance < p.bet
              THEN playAbort(p, 400, "Insufficient balance", FALSE)
              ELSE [at |-> "save", user |-> p.user, bet |-> p.bet,
                    version |-> accountVersion(p.user),
                    grid |-> g,
                    userBalance |-> userBalance,
                    initialBalance |-> userBalance,
                    actualWin |-> actualWin,
                    lossMultiplier |-> IF actualWin = 0 THEN multiplier
                                       ELSE Null,
                    actualLoss |-> loss,
                    netChange |-> actualWin - loss,
                    balance |-> Max(0, userBalance - loss),
                    saved |-> Null, tx |-> Null, bh |-> Null]]
    /\ UNCHANGED <<lobbyVars, balance, transactions, balanceHistories, reels,
                   gen, list>>

\* the first save without the session: the account is written at once
playSavedNoSession(r, outcome) ==
    /\ plays[r].at = "save"
    /\ LET p == plays[r]
           q == [p EXCEPT !.saved = p.balance]
       IN  /\ plays' = [plays EXCEPT ![r] =
                 IF writeConflict(r)
                 THEN playAbort(p, 500, "WriteConflict", FALSE)
                 ELSE IF outcome = "throw"
                 THEN playAbort(p, 500, "save", FALSE)
                 ELSE IF p.actualWin > 0
                 THEN [q EXCEPT !.at = "saveWin",
                                !.balance = p.balance + p.actualWin]
                 ELSE IF q.balance < 0
                 THEN playAbort(p, 500, "Invalid balance calculation", TRUE)
                 ELSE [q EXCEPT !.at = "txCreate"]]
           /\ balance' = IF writeConflict(r) \/ outcome = "throw" THEN balance
                         ELSE [balance EXCEPT ![p.user] = p.balance]
    /\ UNCHANGED <<lobbyVars, transactions, balanceHistories, reels, gen, list>>

\* the first user.save({ session }) is over: with a win the winnings are
\* added to user.balance and saved, else Transaction.create is awaited
playSaved(r, outcome) ==
    /\ plays[r].at = "save"
    /\ LET p == plays[r]
           q == [p EXCEPT !.saved = p.balance]
       IN  plays' = [plays EXCEPT ![r] =
              IF writeConflict(r)
              THEN playAbort(p, 500, "WriteConflict", FALSE)
              ELSE IF outcome = "throw"
              THEN playAbort(p, 500, "save", FALSE)
              ELSE IF p.actualWin > 0
              THEN [q EXCEPT !.at = "saveWin",
                             !.balance = p.balance + p.actualWin]
              ELSE IF q.balance < 0
              THEN playAbort(p, 500, "Invalid balance calculation", TRUE)
              ELSE [q EXCEPT !.at = "txCreate"]]
    /\ UNCHANGED <<lobbyVars, balance, transactions, balanceHistories, reels,
                   gen, list>>

\* the save of the balance with the winnings is over: totalWinnings is
\* raised and saved
playSavedWin(r, outcome) ==
    /\ plays[r].at = "saveWin"
    /\ LET p == plays[r]
       IN  plays' = [plays EXCEPT ![r] =
              IF outcome = "throw"
              THEN playAbort(p, 500, "save", TRUE)
              ELSE [p EXCEPT !.at = "saveTotal", !.saved = p.balance]]
    /\ UNCHANGED <<lobbyVars, balance, transactions, balanceHistories, reels,
                   gen, list>>

\* the save of totalWinnings is over: finalBalance is validated and
\* Transaction.create awaited
playSavedTotal(r, outcome) ==
    /\ plays[r].at = "saveTotal"
    /\ LET p == plays[r]
       IN  plays' = [plays EXCEPT ![r] =
              IF outcome = "throw"
              THEN playAbort(p, 500, "save", TRUE)
              ELSE IF p.balance < 0
              THEN playAbort(p, 500, "Invalid balance calculation", TRUE)
              ELSE [p EXCEPT !.at = "txCreate"]]
    /\ UNCHANGED <<lobbyVars, balance, transactions, balanceHistories, reels,
                   gen, list>>

\* Transaction.create([transactionData], { session }) is over
playTransaction(r, outcome) ==
    /\ plays[r].at = "txCreate"
    /\ LET p == plays[r]
       IN  plays' = [plays EXCEPT ![r] =
              IF outcome = "throw"
              THEN playAbort(p, 500, "Transaction.create", TRUE)
              ELSE [p EXCEPT !.at = "bhCreate", !.tx = transactionData(p)]]
    /\ UNCHANGED <<lobbyVars, balance, transactions, balanceHistories, reels,
                   gen, list>>

\* BalanceHistory.create([balanceHistoryData], { session }) is over
playHistory(r, outcome) ==
    /\ plays[r].at = "bhCreate"
    /\ LET p == plays[r]
       IN  plays' = [plays EXCEPT ![r] =
              IF outcome = "throw"
              THEN playAbort(p, 500, "BalanceHistory.create", TRUE)
              ELSE [p EXCEPT !.at = "commit", !.bh = balanceHistoryData(p)]]
    /\ UNCHANGED <<lobbyVars, balance, transactions, balanceHistories, reels,
                   gen, list>>

\* a commit that leaves the history record out
playCommitNoHistory(r, outcome) ==
    /\ plays[r].at = "commit"
    /\ LET p == plays[r]
       IN  IF outcome = "throw"
           THEN /\ plays' = [plays EXCEPT ![r] =
                                playAbort(p, 500, "commitTransaction", TRUE)]
                /\ UNCHANGED <<balance, transactions, balanceHistories>>
           ELSE /\ plays' = [plays EXCEPT ![r] = [p EXCEPT !.at = "respond"]]
                /\ balance' = [balance EXCEPT ![p.user] = p.saved]
                /\ transactions' = Append(transactions, p.tx)
                /\ UNCHANGED balanceHistories
    /\ UNCHANGED <<lobbyVars, reels, gen, list>>

\* session.commitTransaction() is over: what the transaction wrote (the
\* saved account, the Transaction and the BalanceHistory document) is there
\* for everybody, and res.json is sent
playCommit(r, outcome) ==
    /\ plays[r].at = "commit"
    /\ LET p == plays[r]
       IN  IF outcome = "throw"
           THEN /\ plays' = [plays EXCEPT ![r] =
                                playAbort(p, 500, "commitTransaction", TRUE)]
                /\ UNCHANGED <<balance, transactions, balanceHistories>>
           ELSE /\ plays' = [plays EXCEPT ![r] = [p EXCEPT !.at = "respond"]]
                /\ balance' = [balance EXCEPT ![p.user] = p.saved]
                /\ transactions' = Append(transactions, p.tx)
                /\ balanceHistories' = Append(balanceHistories, p.bh)
    /\ UNCHANGED <<lobbyVars, reels, gen, list>>

\* session.abortTransaction() is over: nothing the transaction wrote stays;
\* the error goes to the caller after session.endSession()
playAborted(r) ==
    /\ plays[r].at = "abort"
    /\ plays' = [plays EXCEPT ![r] = playError(plays[r], plays[r].code)]
    /\ UNCHANGED <<lobbyVars, balance, transactions, balanceHistories, reels,
                   gen, list>>

\* finally: session.endSession() is over after the response was sent
playEnded(r) ==
    /\ plays[r].at = "respond"
    /\ plays' = [plays EXCEPT ![r] = [plays[r] EXCEPT !.at = "done"]
                                        @@ [code |-> 200]]
    /\ UNCHANGED <<lobbyVars, balance, transactions, balanceHistories, reels,
                   gen, list>>

\* ------------------------------------------------------------ environment
\* the requests of a run
Requests == {"r1"}

\* the balances an account may have when the run starts
SoloBalances == {0, One, (3 * One) \div 2, 5 * One}

\* what callers send as betAmount: nothing, too little, three bets that
\* pass, too much
BetAmounts == {0, One \div 2, One, One + One \div 10, 2 * One, MAX_BET + One}

PlayCalls ==
    \E r \in DOMAIN plays, userId \in Accounts \cup {Ghost},
       betAmount \in BetAmounts :
        playGame(r, userId, betAmount)

PlayStarts == \E r \in DOMAIN plays : playStart(r)

\* the loss multiplier is drawn only after a grid without a win
PlayFinds ==
    \E r \in DOMAIN plays, outcome \in Outcomes, status \in AccountStatuses,
       g \in Grids :
        LET wins == lineMultiplier(g) + scatterMultiplier(g) > 0
        IN  \E band \in (IF wins THEN {1} ELSE Bands),
               draw \in (IF wins THEN {0} ELSE LossDraws) :
                playFound(r, outcome, status, g, band, draw)

PlaySaves == \E r \in DOMAIN plays, outcome \in Outcomes : playSaved(r, outcome)

PlaySavesWin ==
    \E r \in DOMAIN plays, outcome \in Outcomes : playSavedWin(r, outcome)

PlaySavesTotal ==
    \E r \in DOMAIN plays, outcome \in Outcomes : playSavedTotal(r, outcome)

PlayTransactions ==
    \E r \in DOMAIN plays, outcome \in Outcomes : playTransaction(r, outcome)

PlayHistories ==
    \E r \in DOMAIN plays, outcome \in Outcomes : playHistory(r, outcome)

PlayCommits ==
    \E r \in DOMAIN plays, outcome \in Outcomes : playCommit(r, outcome)

PlayAborts == \E r \in DOMAIN plays : playAborted(r)

PlayEnds == \E r \in DOMAIN plays : playEnded(r)

SoloInit ==
    /\ session = SessionNew
    /\ activePlayers = {}
    /\ isRunning = FALSE
    /\ pc = "new"
    /\ frame = IdleFrame
    /\ balance \in [Accounts -> SoloBalances]
    /\ transactions = <<>>
    /\ balanceHistories = <<>>
    /\ thrown = {}
    /\ faults = 0
    /\ nBets = 0
    /\ reels = NoGrid
    /\ gen = GenIdle
    /\ list = ListIdle
    /\ plays = [r \in Requests |-> PlayIdle]

SoloNext ==
    \/ PlayCalls
    \/ PlayStarts
    \/ PlayFinds
    \/ PlaySaves
    \/ PlaySavesWin
    \/ PlaySavesTotal
    \/ PlayTransactions
    \/ PlayHistories
    \/ PlayCommits
    \/ PlayAborts
    \/ PlayEnds

SoloSpec == SoloInit /\ [][SoloNext]_vars

\* no key holds a combination and the scatters pay nothing
noCombination(g) ==
    /\ ~(g.count >= 4 \/ (g.count = 3 /\ g.lucky))
    /\ ~(g.scatterCount >= 4 \/ (g.scatterCount = 3 /\ g.luckyScatter))

\* request r has answered, or is about to answer, with success
succeeded(r) ==
    \/ plays[r].at = "respond"
    \/ plays[r].at = "done" /\ plays[r].code = 200

\* C19: a solo play that succeeds appends exactly one Transaction and exactly
\* one BalanceHistory record, both tagged 'sweet-bonanza', and leaves the
\* player's balance at the balance before the play plus winAmount minus
\* actualLoss; without a combination winAmount is 0, the Transaction is a
\* game_loss and the new balance is initialBalance - actualLoss.  No other
\* step of a play changes a balance or appends a record.
C19_SoloLedger ==
    /\ [](/\ Len(transactions) = Cardinality({r \in DOMAIN plays : succeeded(r)})
          /\ Len(balanceHistories) = Len(transactions))
    /\ [][\A r \in DOMAIN plays :
            LET p == plays[r]
                u == p.user
                tx == transactions'[Len(transactions')]
                bh == balanceHistories'[Len(balanceHistories')]
            IN  IF p.at = "commit" /\ plays'[r].at = "respond"
                THEN /\ transactions' = Append(transactions, tx)
                     /\ balanceHistories' = Append(balanceHistories, bh)
                     /\ tx.user = u
                     /\ tx.metadata.gameType = "sweet-bonanza"
                     /\ bh.user = u
                     /\ bh.gameOutcome.gameType = "sweet-bonanza"
                     /\ tx.metadata.netChange = p.actualWin - p.actualLoss
                     /\ bh.change = p.actualWin - p.actualLoss
                     /\ balance'[u] = balance[u] + p.actualWin - p.actualLoss
                     /\ bh.newBalance = balance'[u]
                     /\ \A v \in Accounts \ {u} : balance'[v] = balance[v]
                     /\ (tx.type = "game_loss") <=> (p.actualWin = 0)
                     /\ noCombination(p.grid) =>
                           /\ p.actualWin = 0
                           /\ tx.type = "game_loss"
                           /\ balance'[u] = p.initialBalance - p.actualLoss
                ELSE plays'[r] # plays[r] =>
                        UNCHANGED <<balance, transactions, balanceHistories>>]_vars

\* C19 witness: a play without a combination has succeeded; it took more
\* than the bet, and its one Transaction is a game_loss
C19_Witness ==
    \E r \in DOMAIN plays :
        /\ plays[r].at = "done"
        /\ plays[r].code = 200
        /\ noCombination(plays[r].grid)
        /\ plays[r].actualLoss > plays[r].bet
        /\ Len(transactions) = 1
        /\ Len(balanceHistories) = 1
        /\ transactions[1].type = "game_loss"
        /\ balance[plays[r].user] = plays[r].initialBalance - plays[r].actualLoss

\* request r has drawn its grid and computed its loss
computed(r) ==
    plays[r].at \in {"save", "saveWin", "saveTotal", "txCreate", "bhCreate",
                     "commit", "respond"}
       \/ succeeded(r)

failed(r) ==
    \/ plays[r].at = "abort"
    \/ plays[r].at = "done" /\ plays[r].code # 200

\* C21: a solo play that fails (account not found or not playable, balance
\* below the bet, a failed save, Transaction.create or BalanceHistory.create)
\* ends with an error code, and none of its steps, before or after the
\* failure, changes a balance or the Transaction or BalanceHistory records:
\* only the step that commits a play changes them.
C21_FailedPlayChangesNothing ==
    /\ [](\A r \in DOMAIN plays :
            failed(r) =>
               /\ plays[r].code \in {400, 403, 404, 500}
               /\ Len(transactions)
                     = Cardinality({o \in DOMAIN plays : succeeded(o)})
               /\ Len(balanceHistories) = Len(transactions))
    /\ [][/\ (\A r \in DOMAIN plays :
                plays'[r] # plays[r] => plays'[r].at # "respond")
             => UNCHANGED <<balance, transactions, balanceHistories>>
          /\ \A r \in DOMAIN plays :
                plays[r].at = "abort" =>
                   \/ plays'[r] = plays[r]
                   \/ /\ plays'[r].at = "done"
                      /\ plays'[r].code = plays[r].code]_vars

\* C21 witness: a play has ended with an error after its saves and its
\* Transaction.create went through and BalanceHistory.create failed: the
\* balance is the one the run started with and there are no records
C21_Witness ==
    \E r \in DOMAIN plays :
        /\ plays[r].at = "done"
        /\ plays[r].code = 500
        /\ plays[r].message = "BalanceHistory.create"
        /\ balance[plays[r].user] = 5 * One
        /\ transactions = <<>>
        /\ balanceHistories = <<>>

\* ------------------------------------------------- concurrent solo plays
\* two players and two requests, each by either player
ConcAccounts == {"u1", "u2"}

ConcRequests == {"r1", "r2"}

\* the balances the run starts with
ConcBalance == [u \in ConcAccounts |-> 3 * One]

ConcBets == {One, 2 * One}

\* a grid with four of the second least symbol on a row, and a grid without
\* a combination
ConcGrids ==
    {[base |-> 11, count |-> c, lucky |-> FALSE, scatterCount |-> 0,
      luckyScatter |-> FALSE] : c \in {2, 4}}

ConcCalls ==
    \E r \in DOMAIN plays, userId \in ConcAccounts, betAmount \in ConcBets :
        playGame(r, userId, betAmount)

\* the account is active, the greatest loss multiplier is drawn
ConcFinds ==
    \E r \in DOMAIN plays, g \in ConcGrids :
        playFound(r, "ok", "active", g, 4, 4)

ConcInit ==
    /\ session = SessionNew
    /\ activePlayers = {}
    /\ isRunning = FALSE
    /\ pc = "new"
    /\ frame = IdleFrame
    /\ balance = ConcBalance
    /\ transactions = <<>>
    /\ balanceHistories = <<>>
    /\ thrown = {}
    /\ faults = 0
    /\ nBets = 0
    /\ reels = NoGrid
    /\ gen = GenIdle
    /\ list = ListIdle
    /\ plays = [r \in ConcRequests |-> PlayIdle]

ConcNext ==
    \/ ConcCalls
    \/ PlayStarts
    \/ ConcFinds
    \/ PlaySaves
    \/ PlaySavesWin
    \/ PlaySavesTotal
    \/ PlayTransactions
    \/ PlayHistories
    \/ PlayCommits
    \/ PlayAborts
    \/ PlayEnds

ConcSpec == ConcInit /\ [][ConcNext]_vars

RECURSIVE netChanges(_)
\* the sum of netChange over the requests rs
netChanges(rs) ==
    IF rs = {} THEN 0
    ELSE LET r == CHOOSE o \in rs : TRUE
         IN  plays[r].netChange + netChanges(rs \ {r})

\* the plays of userId that have committed
committed(userId) ==
    {r \in DOMAIN plays : succeeded(r) /\ plays[r].user = userId}

\* C22: however two solo plays interleave, every account's balance is the
\* balance it started with plus the netChange of each of its plays that
\* committed, and is never negative; and a step of a play changes no balance
\* but that of the play's own account.
C22_NoLostUpdate ==
    /\ [](\A u \in DOMAIN balance :
            /\ balance[u] = ConcBalance[u] + netChanges(committed(u))
            /\ balance[u] >= 0)
    /\ [][\A r \in DOMAIN plays :
            plays'[r] # plays[r] =>
               \A u \in DOMAIN balance \ {plays'[r].user} :
                  balance'[u] = balance[u]]_vars

\* C22 witness: two plays of one player ran at the same time; one has
\* committed and answered, the other met the write conflict and failed
C22_Witness ==
    /\ plays["r1"].at = "done"
    /\ plays["r2"].at = "done"
    /\ plays["r1"].user = plays["r2"].user
    /\ plays["r1"].code = 200
    /\ plays["r2"].code = 500
    /\ plays["r2"].message = "WriteConflict"

\* the callers that have a bet in the round
bettors == {session.bets[j].userId : j \in 1..Len(session.bets)}

\* C23: a call of getState by any caller returns the phase and the roundId
\* of the session, timeLeft >= 0, roundCycle in 1..5, the number of the
\* round's bets, the summed stakes of either side, viewersCount =
\* max(0, |activePlayers| - number of distinct bettors) and totalPlayers =
\* max(|activePlayers|, betsCount), counted with the caller in activePlayers
\* unless the caller is anonymous; apart from that entry the call changes
\* nothing.
C23_Snapshot ==
    [][\A u \in PlayerIds :
          getState(u) =>
             /\ activePlayers' = (IF u = "anonymous" THEN activePlayers
                                  ELSE activePlayers \cup {u})
             /\ UNCHANGED <<session, isRunning, pc, frame, balance,
                            transactions, balanceHistories>>
             /\ snapshot(session', activePlayers') \in
                   [phase : {session.phase},
                    roundId : {session.roundId},
                    timeLeft : {IF session.timeLeft < 0 THEN 0
                                ELSE session.timeLeft},
                    roundCycle : 1..5,
                    adminDecision : {session.adminDecision},
                    result : {session.result},
                    betsCount : {Len(session.bets)},
                    betsTotals : {[win |-> stakeOn("win"),
                                   loss |-> stakeOn("loss")]},
                    viewersCount :
                       {IF Cardinality(activePlayers') > Cardinality(bettors)
                        THEN Cardinality(activePlayers') - Cardinality(bettors)
                        ELSE 0},
                    totalPlayers :
                       {IF Cardinality(activePlayers') > Len(session.bets)
                        THEN Cardinality(activePlayers')
                        ELSE Len(session.bets)}]]_vars

\* C23 witness: an account holder has asked for a snapshot while the round
\* holds a bet of its own and a guest's bet, so that a snapshot shows more
\* bettors than active players: no viewer, and two players
C23_Witness ==
    /\ Cardinality(activePlayers) = 1
    /\ Len(session.bets) = 2
    /\ Cardinality(bettors) = 2
    /\ snapshotNow.viewersCount = 0
    /\ snapshotNow.totalPlayers = 2
    /\ snapshotNow.betsTotals.win = 1
    /\ snapshotNow.betsTotals.loss = 1

\* the indices of the round's bets placed by an anonymous caller
guestBets == {j \in betIdx : session.bets[j].userId = "anonymous"}

\* C24: processPayouts never awaits an operation for an anonymous caller's
\* bet; no ledger record names the anonymous caller, and when a round's
\* result is published the round has exactly one record for each of its other
\* bets; a balance changes only by the credit for an account holder's bet, and
\* only that account's; and no entry of a winners list, while it is built or
\* in the result, stands for an anonymous caller: the real entries of the
\* published list are as many as the account holders' winning bets.
C24_GuestBetsSkipped ==
    /\ [](/\ paying => frame.i \notin guestBets
          /\ \A k \in 1..Len(transactions) : transactions[k].user # "anonymous"
          /\ \A k \in 1..Len(frame.winners) :
                frame.winners[k].id # maskedId("anonymous")
          /\ session.result # NoResult =>
                \A k \in 1..Len(session.result.topWinners) :
                   session.result.topWinners[k].id # maskedId("anonymous")
          /\ published =>
                /\ Cardinality(roundTxs) = Cardinality(betIdx \ guestBets)
                /\ Len(session.result.topWinners) =
                      Cardinality({j \in betIdx \ guestBets :
                          session.bets[j].side = session.result.outcome}))
    /\ [][balance' # balance =>
            /\ pc = "payUpdate"
            /\ frame.i \notin guestBets
            /\ \A u \in Accounts \ {session.bets[frame.i].userId} :
                  balance'[u] = balance[u]]_vars

\* C24 witness: a round's result is published; an anonymous caller's bet was
\* on the winning side and an account holder's bet on the other, and the
\* round has one ledger record and no real winner
C24_Witness ==
    /\ published
    /\ Len(session.bets) = 2
    /\ \E j \in guestBets : session.bets[j].side = session.result.outcome
    /\ \E j \in betIdx \ guestBets :
          session.bets[j].side # session.result.outcome
    /\ Cardinality(roundTxs) = 1
    /\ session.result.topWinners = <<>>
    /\ balance = [u \in Accounts |-> InitBalance]

\* C25: while a round lasts (roundId stays) bets only grows, by one appended
\* bet at a time; it does not change while the phase is SPINNING or RESULT
\* and stays so; and whenever the phase becomes BETTING, bets is empty.
C25_BetsPerRound ==
    [][/\ session'.roundId = session.roundId =>
             \/ session'.bets = session.bets
             \/ /\ Len(session'.bets) = Len(session.bets) + 1
                /\ SubSeq(session'.bets, 1, Len(session.bets)) = session.bets
       /\ session.phase \in {"SPINNING", "RESULT"}
             /\ session'.phase \in {"SPINNING", "RESULT"}
          => session'.bets = session.bets
       /\ session.phase # "BETTING" /\ session'.phase = "BETTING"
          => session'.bets = <<>>]_vars

\* C26: adminDecision is null whenever the phase is BETTING, so that an
\* override accepted during one SPINNING phase is gone before the next
\* SPINNING phase begins, whichever way the first one ended.
C26_OverrideOneRound ==
    session.phase = "BETTING" => session.adminDecision = Null

\* the step has started a new round
newRound ==
    /\ session.phase = "RESULT"
    /\ session'.phase = "BETTING"
    /\ session'.roundCount = session.roundCount + 1
    /\ session'.roundCycle = ((session'.roundCount - 1) % 5) + 1
    /\ session'.roundId > session.roundId
    /\ session'.bets = <<>>
    /\ session'.adminDecision = Null
    /\ session'.result = NoResult
    /\ session'.timeLeft = ROUND_TIMES.BETTING

ticked ==
    /\ pc \in {"new", "timer"}
    /\ \/ session'.timeLeft # session.timeLeft
       \/ session'.phase # session.phase

betsOf(u, side) ==
    {j \in betIdx : session.bets[j].userId = u /\ session.bets[j].side = side}

recordsFor(u, side) ==
    {k \in roundTxs : transactions[k].user = u /\ transactions[k].side = side}

\* C29: no bet of the round is settled more than once: for every account and
\* side the round never has more ledger records than bets, and a balance is
\* credited for a bet only while the round has fewer records for the bet's
\* account and side than bets (every credit is followed by its record).
C29_SettledOnce ==
    /\ [](\A u \in Accounts, side \in Sides :
            Cardinality(recordsFor(u, side)) <= Cardinality(betsOf(u, side)))
    /\ [][balance' # balance =>
            LET bet == session.bets[frame.i]
            IN  Cardinality(recordsFor(bet.userId, bet.side))
                   < Cardinality(betsOf(bet.userId, bet.side))]_vars

====
